---- MODULE Spec2Model ----
(***************************************************************************)
(* A model of the artalike pipeline: the crawl coordinator                 *)
(* (scripts/crawl.py), the embedding ingestor (scripts/embed.py), the      *)
(* index builder (scripts/index.py) and the query service (server.py).     *)
(* SQLite tables are modelled with their transaction state: `durable` is   *)
(* what is on disk, `table` is what the writing connection sees.           *)
(***************************************************************************)
EXTENDS Bags, FiniteSets, Integers, Naturals, Sequences, TLC

\* ------------------------------------------------------------------ bounds
\* number of crawl runs (processes started one after the other)
MaxRuns == 2
\* asyncio.Semaphore(50) of each crawl_* coroutine, scaled down
SemCap == 1
\* batch_size of the data loader, scaled down
BatchSize == 2
\* batches yielded to the ingestor, all its runs together
MaxBatches == 2
\* runs of the index builder
MaxBuilds == 1
\* worker threads of the query service that serve requests at the same time
NThreads == 2
\* length of a <loc> text in pieces, and <loc> elements of the child sitemaps
MaxText == 3
MaxLocs == 2
\* page length a client asks for (the claims speak of 10)
PageSize == 2

\* ------------------------------------------------------- crawl: the world
Museums == {"met", "louvre"}

\* object ids as the Met listing endpoint returns them (JSON integers)
MetIds == {1, 2}
\* references as they are recovered from the Louvre sitemap tree
LouvreRefs == {"cl1", "cl2"}
\* raw per-item documents
Docs == {"d1", "d2"}

\* str(ref) of an integer object id: its decimal text
str(ref) == ToString(ref)

\* every reference in the text form in which it is diffed, fetched and stored
AllRefs == {str(r) : r \in MetIds} \cup LouvreRefs

VARIABLES
    listing,    \* upstream: museum -> the references currently published
    durable,    \* artworks table as committed on disk (a bag of rows)
    table,      \* artworks table as the crawler's connection sees it
    cpc,        \* crawler process: "idle" | "running" | "killed"
    run,        \* number of runs started so far
    tpc,        \* museum -> position of its crawl_* coroutine: "list" |
                \* "fetch" | "failed" (returned from the except) | "done"
    missing,    \* museum -> missing_refs of the current run
    item,       \* museum -> [missing ref -> position of process_artwork]:
                \* "wait" | "sleep" | "get" | "failed" (nothing saved) | "done"
    preRun,     \* history: `durable` when the current run started
    inserted,   \* history: <<museum, ref>> whose save added a row in this run
    clean,      \* history: museums with no failed request so far in this run
    prevDone,   \* history: the run before this one returned (was not killed)
    prevClean,  \* history: museums with no failed request in that run
    cutShort,   \* history: museums with unprocessed missing refs at the kill
    lastSave    \* history: the last save_artwork call and what it met

VARIABLE
    sitemap     \* the <loc> texts of the Louvre child sitemaps, in document
                \* order, where the extraction of references is looked at

crawlVars == <<listing, durable, table, cpc, run, tpc, missing, item,
               preRun, inserted, clean, prevDone, prevClean, cutShort, lastSave,
               sitemap>>

VARIABLES
    edurable,   \* embeddings table (rows and sqlite_sequence) as committed
    etable,     \* embeddings table as the ingestor's connection sees it
    ipc,        \* ingestor process: "idle" | "running"
    nbatch,     \* batches the data loader has yielded so far, all runs
    presented,  \* history: image URLs the ingestor was given
    embedRaised,\* history: the embedding function raised at least once
    reembedded, \* history: URLs handed to the embedding function or to the
                \* insert although present when their batch was checked
    bpc,        \* index builder: "idle" | "adding" | "aborted" | "done"
    rows,       \* builder: the rows fetched by its scan, in scan order
    faiss_ix,   \* builder: 0-based position of the next vector to add
    index,      \* builder: the vectors added to the index so far
    nbuild,     \* index builds started so far
    artifact,   \* index.faiss on disk: absent, or the vectors of a build
    artifactRows, \* history: the rows scanned by the build that wrote it
    artifactBefore, \* history: `artifact` when the current build started
    spc,        \* query service: "down" | "ready"
    loaded,     \* query service: the index read from the artifact at startup
    loadedRows, \* history: the rows scanned by the build of the loaded index
    resp,       \* history: the last request served and its answer
    dbfile,     \* collections.db is there
    hpc,        \* position of each request handler thread of the service
    db_lock     \* threading.Lock of server.py: 0 when free, else the thread
                \* that holds it

ingestVars == <<edurable, etable, ipc, nbatch, presented, embedRaised,
                reembedded>>
buildVars == <<bpc, rows, faiss_ix, index, nbuild, artifact, artifactRows,
               artifactBefore>>
queryVars == <<spc, loaded, loadedRows, resp, dbfile, hpc, db_lock>>
pipeVars == <<ingestVars, buildVars, queryVars>>

vars == <<crawlVars, pipeVars>>

\* the worker threads that run the handlers of the service
Threads == 1..NThreads

\* a row of the artworks table (id and updated are not read by the crawl)
Row(museum, ref, data) == [museum |-> museum, accession_ref |-> ref, data |-> data]

\* rows of a bag-valued table that carry the key (museum, ref)
RowsFor(tbl, museum, ref) ==
    {r \in BagToSet(tbl) : r.museum = museum /\ r.accession_ref = ref}

\* number of rows of the table with the key (museum, ref), duplicates counted
KeyCount(tbl, museum, ref) ==
    LET RECURSIVE Sum(_)
        Sum(S) == IF S = {} THEN 0
                  ELSE LET r == CHOOSE x \in S : TRUE
                       IN CopiesIn(r, tbl) + Sum(S \ {r})
    IN Sum(RowsFor(tbl, museum, ref))

\* rows of one museum
MuseumRows(tbl, museum) ==
    [r \in {x \in BagToSet(tbl) : x.museum = museum} |-> CopiesIn(r, tbl)]

\* SELECT accession_ref FROM artworks WHERE museum = ?
get_existing_refs(tbl, museum) ==
    {r.accession_ref : r \in {x \in BagToSet(tbl) : x.museum = museum}}

\* One INSERT statement against UNIQUE(museum, accession_ref), by conflict
\* clause: the table afterwards and whether sqlite3.IntegrityError is raised.
Insert(tbl, row, clause) ==
    LET same == RowsFor(tbl, row.museum, row.accession_ref)
    IN IF same = {}
       THEN [tbl |-> tbl (+) SetToBag({row}), error |-> FALSE]
       ELSE CASE clause = "IGNORE"  -> [tbl |-> tbl, error |-> FALSE]
              [] clause = "REPLACE" ->
                    [tbl |-> (tbl (-) [r \in same |-> CopiesIn(r, tbl)])
                                 (+) SetToBag({row}),
                     error |-> FALSE]
              [] OTHER -> [tbl |-> tbl, error |-> TRUE]

\* plain INSERT INTO artworks: a duplicate key raises
save_artwork_plain(tbl, museum, ref, data) ==
    Insert(tbl, Row(museum, ref, data), "ABORT")

\* INSERT OR IGNORE INTO artworks (museum, accession_ref, data, updated);
\* ref arrives as text (an element of missing_refs), so str(ref) is ref
save_artwork(tbl, museum, ref, data) ==
    Insert(tbl, Row(museum, ref, data), "IGNORE")

\* the references of a listing in the form they are diffed in
api_refs_set(museum, refs) ==
    IF museum = "met" THEN {str(r) : r \in refs} ELSE refs

\* every listed reference, persisted or not (what missing_refs is not)
listed_refs(tbl, museum, refs) == api_refs_set(museum, refs)

\* missing_refs = api_refs_set - existing_refs_set
missing_refs(tbl, museum, refs) ==
    api_refs_set(museum, refs) \ get_existing_refs(tbl, museum)

\* process_artwork coroutines that hold a slot of their museum's semaphore
Holding(m) == {r \in missing[m] : item[m][r] \in {"sleep", "get"}}

\* process_artwork coroutines that have not finished
Unprocessed(m) == {r \in missing[m] : item[m][r] \notin {"done", "failed"}}

NoItems == [r \in {} |-> "wait"]

NoSave == [called |-> FALSE]

CrawlInit ==
    /\ listing \in {[met |-> a, louvre |-> b] :
                        a \in {{}, {1}, MetIds}, b \in {{}, {"cl1"}, LouvreRefs}}
    /\ durable = EmptyBag
    /\ table = EmptyBag
    /\ cpc = "idle"
    /\ run = 0
    /\ tpc = [m \in Museums |-> "done"]
    /\ missing = [m \in Museums |-> {}]
    /\ item = [m \in Museums |-> NoItems]
    /\ preRun = EmptyBag
    /\ inserted = {}
    /\ clean = Museums
    /\ prevDone = FALSE
    /\ prevClean = {}
    /\ cutShort = {}
    /\ lastSave = NoSave
    /\ sitemap = <<>>

\* main(): Crawler() opens the connection, crawl() starts both coroutines
StartRun ==
    /\ cpc # "running"
    /\ run < MaxRuns
    /\ cpc' = "running"
    /\ run' = run + 1
    /\ table' = durable
    /\ preRun' = durable
    /\ tpc' = [m \in Museums |-> "list"]
    /\ missing' = [m \in Museums |-> {}]
    /\ item' = [m \in Museums |-> NoItems]
    /\ inserted' = {}
    /\ prevDone' = (run >= 1 /\ cpc = "idle")
    /\ prevClean' = IF run >= 1 /\ cpc = "idle" THEN clean ELSE {}
    /\ clean' = Museums
    /\ cutShort' = {}
    /\ UNCHANGED <<listing, durable, lastSave>>
    /\ UNCHANGED <<sitemap, pipeVars>>

\* a reference collected before the failure is persisted all the same (what
\* ListingFail is not)
ListingFailSavesPartial(m) ==
    /\ cpc = "running"
    /\ tpc[m] = "list"
    /\ \E r \in api_refs_set(m, listing[m]) : \E d \in Docs :
          table' = save_artwork(table, m, r, d).tbl
    /\ tpc' = [tpc EXCEPT ![m] = "failed"]
    /\ clean' = clean \ {m}
    /\ UNCHANGED <<listing, durable, cpc, run, missing, item, preRun,
                   inserted, prevDone, prevClean, cutShort, lastSave>>
    /\ UNCHANGED <<sitemap, pipeVars>>

\* a request for the listing raised (for the Louvre: the sitemap index or any
\* child sitemap, all inside one try): the refs collected so far are dropped
\* and the coroutine returns
ListingFail(m) ==
    /\ cpc = "running"
    /\ tpc[m] = "list"
    /\ tpc' = [tpc EXCEPT ![m] = "failed"]
    /\ clean' = clean \ {m}
    /\ UNCHANGED <<listing, durable, table, cpc, run, missing, item, preRun,
                   inserted, prevDone, prevClean, cutShort, lastSave>>
    /\ UNCHANGED <<sitemap, pipeVars>>

\* the listing arrived: diff against the persisted refs, spawn process_artwork
ListingOk(m) ==
    /\ cpc = "running"
    /\ tpc[m] = "list"
    /\ LET refs == listing[m]
           miss == IF refs = {} THEN {} ELSE missing_refs(table, m, refs)
       IN /\ missing' = [missing EXCEPT ![m] = miss]
          /\ item' = [item EXCEPT ![m] = [r \in miss |-> "wait"]]
          /\ tpc' = [tpc EXCEPT ![m] = IF miss = {} THEN "done" ELSE "fetch"]
    /\ UNCHANGED <<listing, durable, table, cpc, run, preRun, inserted, clean,
                   prevDone, prevClean, cutShort, lastSave>>
    /\ UNCHANGED <<sitemap, pipeVars>>

\* async with sem: a slot of this museum's semaphore is taken
Acquire(m, r) ==
    /\ cpc = "running"
    /\ tpc[m] = "fetch"
    /\ r \in missing[m]
    /\ item[m][r] = "wait"
    /\ Cardinality(Holding(m)) < SemCap
    /\ item' = [item EXCEPT ![m][r] = "sleep"]
    /\ UNCHANGED <<listing, durable, table, cpc, run, tpc, missing, preRun,
                   inserted, clean, prevDone, prevClean, cutShort, lastSave>>
    /\ UNCHANGED <<sitemap, pipeVars>>

\* asyncio.sleep(1 / rate_limit) is over: the item request is sent
SendGet(m, r) ==
    /\ cpc = "running"
    /\ r \in missing[m]
    /\ item[m][r] = "sleep"
    /\ item' = [item EXCEPT ![m][r] = "get"]
    /\ UNCHANGED <<listing, durable, table, cpc, run, tpc, missing, preRun,
                   inserted, clean, prevDone, prevClean, cutShort, lastSave>>
    /\ UNCHANGED <<sitemap, pipeVars>>

\* status 200 with a document: save_artwork, then the slot is released;
\* an exception out of save_artwork would be caught in process_artwork
FetchOk(m, r, d) ==
    /\ cpc = "running"
    /\ r \in missing[m]
    /\ item[m][r] = "get"
    /\ LET res == save_artwork(table, m, r, d)
       IN /\ table' = res.tbl
          /\ inserted' = IF res.tbl # table THEN inserted \cup {<<m, r>>}
                         ELSE inserted
    /\ item' = [item EXCEPT ![m][r] = "done"]
    /\ UNCHANGED <<listing, durable, cpc, run, tpc, missing, preRun, clean,
                   prevDone, prevClean, cutShort, lastSave>>
    /\ UNCHANGED <<sitemap, pipeVars>>

\* the exception leaves process_artwork and gather: the coroutine ends without
\* its commit (what FetchFail is not)
FetchFailAborts(m, r) ==
    /\ cpc = "running"
    /\ r \in missing[m]
    /\ item[m][r] = "get"
    /\ item' = [item EXCEPT ![m][r] = "failed"]
    /\ tpc' = [tpc EXCEPT ![m] = "failed"]
    /\ clean' = clean \ {m}
    /\ UNCHANGED <<listing, durable, table, cpc, run, missing, preRun,
                   inserted, prevDone, prevClean, cutShort, lastSave>>
    /\ UNCHANGED <<sitemap, pipeVars>>

\* a failed fetch leaves a row behind all the same (what FetchFail is not)
FetchFailSaves(m, r) ==
    /\ cpc = "running"
    /\ r \in missing[m]
    /\ item[m][r] = "get"
    /\ table' = save_artwork(table, m, r, CHOOSE d \in Docs : TRUE).tbl
    /\ item' = [item EXCEPT ![m][r] = "failed"]
    /\ clean' = clean \ {m}
    /\ UNCHANGED <<listing, durable, cpc, run, tpc, missing, preRun,
                   inserted, prevDone, prevClean, cutShort, lastSave>>
    /\ UNCHANGED <<sitemap, pipeVars>>

\* a failed fetch is tried again under the same slot (what FetchFail is not)
FetchFailRetries(m, r) ==
    /\ cpc = "running"
    /\ r \in missing[m]
    /\ item[m][r] = "get"
    /\ item' = [item EXCEPT ![m][r] = "sleep"]
    /\ clean' = clean \ {m}
    /\ UNCHANGED <<listing, durable, table, cpc, run, tpc, missing, preRun,
                   inserted, prevDone, prevClean, cutShort, lastSave>>
    /\ UNCHANGED <<sitemap, pipeVars>>

\* any other status, a body that is not JSON, or an exception caught in
\* process_artwork: nothing saved, the slot is released
FetchFail(m, r) ==
    /\ cpc = "running"
    /\ r \in missing[m]
    /\ item[m][r] = "get"
    /\ item' = [item EXCEPT ![m][r] = "failed"]
    /\ clean' = clean \ {m}
    /\ UNCHANGED <<listing, durable, table, cpc, run, tpc, missing, preRun,
                   inserted, prevDone, prevClean, cutShort, lastSave>>
    /\ UNCHANGED <<sitemap, pipeVars>>

\* the commit is left out (what Commit is not)
CommitSkipped(m) ==
    /\ cpc = "running"
    /\ tpc[m] = "fetch"
    /\ Unprocessed(m) = {}
    /\ tpc' = [tpc EXCEPT ![m] = "done"]
    /\ UNCHANGED <<listing, durable, table, cpc, run, missing, item, preRun,
                   inserted, clean, prevDone, prevClean, cutShort, lastSave>>
    /\ UNCHANGED <<sitemap, pipeVars>>

\* gather returned: self.conn.commit() on the connection both coroutines share
Commit(m) ==
    /\ cpc = "running"
    /\ tpc[m] = "fetch"
    /\ Unprocessed(m) = {}
    /\ durable' = table
    /\ tpc' = [tpc EXCEPT ![m] = "done"]
    /\ UNCHANGED <<listing, table, cpc, run, missing, item, preRun,
                   inserted, clean, prevDone, prevClean, cutShort, lastSave>>
    /\ UNCHANGED <<sitemap, pipeVars>>

\* crawl() goes on as soon as one coroutine returned (what Finish is not)
FinishAtFirstReturn ==
    /\ cpc = "running"
    /\ \E m \in Museums : tpc[m] \in {"done", "failed"}
    /\ cpc' = "idle"
    /\ table' = durable
    /\ UNCHANGED <<listing, durable, run, tpc, missing, item, preRun,
                   inserted, clean, prevDone, prevClean, cutShort, lastSave>>
    /\ UNCHANGED <<sitemap, pipeVars>>

\* asyncio.gather returned, that is both coroutines returned:
\* self.conn.close(), the process ends
Finish ==
    /\ cpc = "running"
    /\ \A m \in Museums : tpc[m] \in {"done", "failed"}
    /\ cpc' = "idle"
    /\ table' = durable
    /\ UNCHANGED <<listing, durable, run, tpc, missing, item, preRun,
                   inserted, clean, prevDone, prevClean, cutShort, lastSave>>
    /\ UNCHANGED <<sitemap, pipeVars>>

\* the process is killed: the open transaction is rolled back
Kill ==
    /\ cpc = "running"
    /\ cpc' = "killed"
    /\ table' = durable
    /\ cutShort' = {m \in Museums : tpc[m] = "fetch" /\ Unprocessed(m) # {}}
    /\ UNCHANGED <<listing, durable, run, tpc, missing, item, preRun,
                   inserted, clean, prevDone, prevClean, lastSave>>
    /\ UNCHANGED <<sitemap, pipeVars>>

CrawlNext ==
    \/ StartRun
    \/ \E m \in Museums : ListingFail(m)
    \/ \E m \in Museums : ListingOk(m)
    \/ \E m \in Museums : \E r \in AllRefs : Acquire(m, r)
    \/ \E m \in Museums : \E r \in AllRefs : SendGet(m, r)
    \/ \E m \in Museums : \E r \in AllRefs : \E d \in Docs : FetchOk(m, r, d)
    \/ \E m \in Museums : \E r \in AllRefs : FetchFail(m, r)
    \/ \E m \in Museums : Commit(m)
    \/ Finish
    \/ Kill


\* --------------------------------------- save_artwork called on its own
\* references used when save_artwork is exercised directly
SaveRefs == {"1", "cl1"}

SaveInit ==
    /\ CrawlInit
    /\ listing = [met |-> {}, louvre |-> {}]

\* Crawler.save_artwork(museum, ref, data) on an open connection
SaveArtworkCall(m, r, d) ==
    /\ LET res == save_artwork(table, m, r, d)
       IN /\ table' = res.tbl
          /\ lastSave' = [called |-> TRUE, museum |-> m, ref |-> r, data |-> d,
                          existed |-> RowsFor(table, m, r) # {},
                          before |-> table, after |-> res.tbl,
                          error |-> res.error]
    /\ UNCHANGED <<listing, durable, cpc, run, tpc, missing, item, preRun,
                   inserted, clean, prevDone, prevClean, cutShort>>
    /\ UNCHANGED <<sitemap, pipeVars>>

\* self.conn.commit()
SaveCommit ==
    /\ durable # table
    /\ durable' = table
    /\ UNCHANGED <<listing, table, cpc, run, tpc, missing, item, preRun,
                   inserted, clean, prevDone, prevClean, cutShort, lastSave>>
    /\ UNCHANGED <<sitemap, pipeVars>>

\* the connection is closed with the transaction open, and opened again
SaveReopen ==
    /\ durable # table
    /\ table' = durable
    /\ UNCHANGED <<listing, durable, cpc, run, tpc, missing, item, preRun,
                   inserted, clean, prevDone, prevClean, cutShort, lastSave>>
    /\ UNCHANGED <<sitemap, pipeVars>>

SaveNext ==
    \/ \E m \in Museums : \E r \in SaveRefs : \E d \in Docs : SaveArtworkCall(m, r, d)
    \/ SaveCommit
    \/ SaveReopen


\* ------------------------------------------------ embedding ingestor
\* images of the shards: url and the artwork (record) they were found for;
\* u1 is an image that two records share
URLs == {"u1", "u2", "u3"}
Items == {[url |-> "u1", artwork_id |-> 1], [url |-> "u1", artwork_id |-> 2],
          [url |-> "u2", artwork_id |-> 1], [url |-> "u3", artwork_id |-> 2]}

\* batches the data loader can yield: 1..BatchSize items
Batches == UNION {[1..n -> Items] : n \in 1..BatchSize}

\* model.get_image_features followed by the division by the norm: the unit
\* vector of an image, here a point of a half circle (u1 and u2 are close)
get_image_features(url) ==
    CASE url = "u1" -> 1 [] url = "u2" -> 2 [] OTHER -> 5

\* the float32 array as the BLOB that is stored, and np.frombuffer of it
tobytes(vector) == <<"f32", vector>>
frombuffer(blob) == blob[2]

\* inner product of two unit vectors (larger is more similar)
InnerProduct(v, w) == IF v >= w THEN w - v ELSE v - w

Max(S) == CHOOSE x \in S : \A y \in S : y <= x

EmptyDb == [rows |-> {}, seq |-> 0]

\* the rowid AUTOINCREMENT gives the next inserted row
NextId(db) == Max({db.seq} \cup {r.id : r \in db.rows}) + 1

\* INSERT INTO embeddings (url, artwork_id, embedding, ...) VALUES (...)
\* under url TEXT UNIQUE: the table afterwards and whether IntegrityError is
\* raised. After a failed insert the rowid it tried may or may not be reused
\* (`skip`).
InsertEmbedding(db, it, skip) ==
    IF \E r \in db.rows : r.url = it.url
    THEN [db |-> [db EXCEPT !.seq = IF skip THEN NextId(db) ELSE @],
          error |-> TRUE]
    ELSE [db |-> [rows |-> db.rows \cup
                     {[id |-> NextId(db), url |-> it.url,
                       artwork_id |-> it.artwork_id,
                       embedding |-> tobytes(get_image_features(it.url))]},
                  seq |-> NextId(db)],
          error |-> FALSE]

\* cursor.executemany(INSERT ..., items): row after row, stopping at the
\* first one that raises; the rows before it stay in the open transaction
RECURSIVE executemany(_, _, _)
executemany(db, its, skip) ==
    IF its = <<>> THEN [db |-> db, error |-> FALSE]
    ELSE LET one == InsertEmbedding(db, Head(its), skip)
         IN IF one.error THEN one
            ELSE executemany(one.db, Tail(its), skip)

\* SELECT url FROM embeddings WHERE url IN (urls of the batch)
existing_urls(db, batch) ==
    {r.url : r \in db.rows} \cap {batch[i].url : i \in DOMAIN batch}

\* no mask: every item of the batch goes on (what new_items is not)
all_items(db, batch) == batch

\* the items of the batch whose mask entry is True, in batch order
new_items(db, batch) ==
    SelectSeq(batch, LAMBDA it : it.url \notin existing_urls(db, batch))

\* URLs of the items that go on to the embedding function and the insert
\* although the SELECT of this batch found them in the table
present_among(db, batch) ==
    {new_items(db, batch)[i].url : i \in DOMAIN new_items(db, batch)}
        \cap existing_urls(db, batch)

\* the URLs that have a row in a table
StoredUrls(db) == {r.url : r \in db.rows}

\* number of rows with a URL
UrlCount(db, u) == Cardinality({r \in db.rows : r.url = u})

PipeInit ==
    /\ edurable = EmptyDb
    /\ etable = EmptyDb
    /\ ipc = "idle"
    /\ nbatch = 0
    /\ presented = {}
    /\ embedRaised = FALSE
    /\ reembedded = {}
    /\ bpc = "idle"
    /\ rows = <<>>
    /\ faiss_ix = 0
    /\ index = <<>>
    /\ nbuild = 0
    /\ artifact = [exists |-> FALSE]
    /\ artifactRows = <<>>
    /\ artifactBefore = [exists |-> FALSE]
    /\ spc = "down"
    /\ loaded = <<>>
    /\ loadedRows = <<>>
    /\ resp = [op |-> "none"]
    /\ dbfile = TRUE
    /\ hpc = [t \in Threads |-> "idle"]
    /\ db_lock = 0

\* the table is created anew at every start (what IngestStart is not)
IngestStartDropsTable ==
    /\ ipc = "idle"
    /\ nbatch < MaxBatches
    /\ ipc' = "running"
    /\ etable' = EmptyDb
    /\ edurable' = EmptyDb
    /\ UNCHANGED <<nbatch, presented, embedRaised, reembedded>>
    /\ UNCHANGED <<crawlVars, buildVars, queryVars>>

\* scripts/embed.py starts: sqlite3.connect, CREATE TABLE IF NOT EXISTS
IngestStart ==
    /\ ipc = "idle"
    /\ nbatch < MaxBatches
    /\ ipc' = "running"
    /\ etable' = edurable
    /\ UNCHANGED <<edurable, nbatch, presented, embedRaised, reembedded>>
    /\ UNCHANGED <<crawlVars, buildVars, queryVars>>

\* one iteration of the batch loop whose URLs are all in the table: continue
IngestSkip(batch) ==
    /\ ipc = "running"
    /\ nbatch < MaxBatches
    /\ new_items(etable, batch) = <<>>
    /\ nbatch' = nbatch + 1
    /\ presented' = presented \cup {batch[i].url : i \in DOMAIN batch}
    /\ UNCHANGED <<edurable, etable, ipc, embedRaised, reembedded>>
    /\ UNCHANGED <<crawlVars, buildVars, queryVars>>

\* the exception of the embedding function ends the script (what
\* IngestEmbedFail is not)
IngestEmbedFailFatal(batch) ==
    /\ ipc = "running"
    /\ nbatch < MaxBatches
    /\ new_items(etable, batch) # <<>>
    /\ nbatch' = nbatch + 1
    /\ presented' = presented \cup {batch[i].url : i \in DOMAIN batch}
    /\ embedRaised' = TRUE
    /\ ipc' = "idle"
    /\ etable' = edurable
    /\ UNCHANGED <<edurable, reembedded>>
    /\ UNCHANGED <<crawlVars, buildVars, queryVars>>

\* one iteration in which the embedding function raises: caught, next batch
IngestEmbedFail(batch) ==
    /\ ipc = "running"
    /\ nbatch < MaxBatches
    /\ new_items(etable, batch) # <<>>
    /\ nbatch' = nbatch + 1
    /\ presented' = presented \cup {batch[i].url : i \in DOMAIN batch}
    /\ embedRaised' = TRUE
    /\ reembedded' = reembedded \cup present_among(etable, batch)
    /\ UNCHANGED <<edurable, etable, ipc>>
    /\ UNCHANGED <<crawlVars, buildVars, queryVars>>

\* one iteration that reaches executemany: commit if it returns; if it raises
\* the exception is caught and the loop goes on with the transaction open
IngestInsert(batch, skip) ==
    /\ ipc = "running"
    /\ nbatch < MaxBatches
    /\ new_items(etable, batch) # <<>>
    /\ LET res == executemany(etable, new_items(etable, batch), skip)
       IN /\ skip => res.error
          /\ etable' = res.db
          /\ edurable' = IF res.error THEN edurable ELSE res.db
    /\ nbatch' = nbatch + 1
    /\ presented' = presented \cup {batch[i].url : i \in DOMAIN batch}
    /\ reembedded' = reembedded \cup present_among(etable, batch)
    /\ UNCHANGED <<ipc, embedRaised>>
    /\ UNCHANGED <<crawlVars, buildVars, queryVars>>

\* the loader is exhausted: conn.close() drops what was not committed
IngestClose ==
    /\ ipc = "running"
    /\ ipc' = "idle"
    /\ etable' = edurable
    /\ UNCHANGED <<edurable, nbatch, presented, embedRaised, reembedded>>
    /\ UNCHANGED <<crawlVars, buildVars, queryVars>>

IngestNext ==
    \/ IngestStart
    \/ \E b \in Batches : IngestSkip(b)
    \/ \E b \in Batches : IngestEmbedFail(b)
    \/ \E b \in Batches : \E skip \in BOOLEAN : IngestInsert(b, skip)
    \/ IngestClose

\* ------------------------------------------------------- index builder
\* SELECT id, embedding FROM embeddings ORDER BY id; fetchall()
RECURSIVE OrderById(_)
OrderById(S) ==
    IF S = {} THEN <<>>
    ELSE LET first == CHOOSE r \in S : \A x \in S : r.id <= x.id
         IN <<first>> \o OrderById(S \ {first})

\* the assertion is compiled away (what aligned is not)
aligned_unchecked(ix, db_ix) == TRUE

\* an ordinal ahead of its position passes (what aligned is not)
aligned_loose(ix, db_ix) == ix <= db_ix - 1

\* assert faiss_ix == db_ix - 1
aligned(ix, db_ix) == ix = db_ix - 1

\* the vector is put in front of the others (what add is not)
add_front(ix, vector) == <<vector>> \o ix

\* index.add(embedding.reshape(1, -1)): the vector takes the next position
add(ix, vector) == Append(ix, vector)

\* scripts/index.py starts: the scan, the training on all scanned vectors
BuildScan ==
    /\ bpc # "adding"
    /\ nbuild < MaxBuilds
    /\ nbuild' = nbuild + 1
    /\ rows' = OrderById(edurable.rows)
    /\ faiss_ix' = 0
    /\ index' = <<>>
    /\ artifactBefore' = artifact
    /\ bpc' = "adding"
    /\ UNCHANGED <<artifact, artifactRows>>
    /\ UNCHANGED <<crawlVars, ingestVars, queryVars>>

\* index.train raises on a scan without rows (there is nothing to cluster);
\* whether it does is the library's matter, so both outcomes are kept
BuildTrainFail ==
    /\ bpc = "adding"
    /\ rows = <<>>
    /\ bpc' = "aborted"
    /\ UNCHANGED <<rows, faiss_ix, index, nbuild, artifact, artifactRows,
                   artifactBefore>>
    /\ UNCHANGED <<crawlVars, ingestVars, queryVars>>

\* one turn of the adding loop whose assertion holds
BuildAdd ==
    /\ bpc = "adding"
    /\ faiss_ix < Len(rows)
    /\ aligned(faiss_ix, rows[faiss_ix + 1].id)
    /\ index' = add(index, frombuffer(rows[faiss_ix + 1].embedding))
    /\ faiss_ix' = faiss_ix + 1
    /\ UNCHANGED <<bpc, rows, nbuild, artifact, artifactRows, artifactBefore>>
    /\ UNCHANGED <<crawlVars, ingestVars, queryVars>>

\* one turn of the adding loop whose assertion fails: AssertionError ends
\* the script
BuildAbort ==
    /\ bpc = "adding"
    /\ faiss_ix < Len(rows)
    /\ ~aligned(faiss_ix, rows[faiss_ix + 1].id)
    /\ bpc' = "aborted"
    /\ UNCHANGED <<rows, faiss_ix, index, nbuild, artifact, artifactRows,
                   artifactBefore>>
    /\ UNCHANGED <<crawlVars, ingestVars, queryVars>>

\* the loop is through: faiss.write_index(index, index_path)
BuildWrite ==
    /\ bpc = "adding"
    /\ faiss_ix = Len(rows)
    /\ artifact' = [exists |-> TRUE, vectors |-> index]
    /\ artifactRows' = rows
    /\ bpc' = "done"
    /\ UNCHANGED <<rows, faiss_ix, index, nbuild, artifactBefore>>
    /\ UNCHANGED <<crawlVars, ingestVars, queryVars>>

BuildNext == BuildScan \/ BuildTrainFail \/ BuildAdd \/ BuildAbort \/ BuildWrite

\* -------------------------------------------------------- query service
\* positions of the index from the most to the least similar to the query,
\* equal scores by position
RECURSIVE Ranked(_, _, _)
Ranked(vectors, q, S) ==
    IF S = {} THEN <<>>
    ELSE LET best == CHOOSE p \in S : \A x \in S :
                        \/ InnerProduct(vectors[p + 1], q) > InnerProduct(vectors[x + 1], q)
                        \/ /\ InnerProduct(vectors[p + 1], q) = InnerProduct(vectors[x + 1], q)
                           /\ p <= x
         IN <<best>> \o Ranked(vectors, q, S \ {best})

\* index.search(query, k): I[0], the k labels by rank, -1 where the index
\* has no further vector
index_search(vectors, q, k) ==
    LET all == Ranked(vectors, q, 0..(Len(vectors) - 1))
    IN [j \in 1..k |-> IF j <= Len(all) THEN all[j] ELSE -1]

\* SELECT url, ... FROM embeddings WHERE id IN (ids): the rows come back by
\* rowid, whatever the order of the ids
fetch_by_ids(db, ids) ==
    OrderById({r \in db.rows : \E j \in DOMAIN ids : ids[j] = r.id})

\* a search that goes to the index with a zero vector when the URL has no
\* row (what search is not)
search_unguarded(db, vectors, url, offset, limit) ==
    LET I == index_search(vectors, 0, offset + limit)
        neighbor_ids == [j \in 1..limit |-> I[j + offset] + 1]
        fetched == fetch_by_ids(db, neighbor_ids)
    IN [I |-> I, neighbor_ids |-> neighbor_ids, found |-> FALSE, self_id |-> 0,
        ids |-> [j \in DOMAIN fetched |-> fetched[j].id],
        results |-> [j \in DOMAIN fetched |-> fetched[j].url]]

\* the body of search(url, offset, limit) against the store and the index
search(db, vectors, url, offset, limit) ==
    LET result == {r \in db.rows : r.url = url}
    IN IF result = {}
       THEN [I |-> <<>>, neighbor_ids |-> <<>>, results |-> <<>>, ids |-> <<>>,
             self_id |-> 0, found |-> FALSE]
       ELSE LET row == CHOOSE r \in result : TRUE
                embedding == frombuffer(row.embedding)
                k == offset + limit
                I == index_search(vectors, embedding, k)
                neighbor_ids == [j \in 1..(k - offset) |-> I[j + offset] + 1]
                fetched == fetch_by_ids(db, neighbor_ids)
            IN [I |-> I, neighbor_ids |-> neighbor_ids, found |-> TRUE,
                self_id |-> row.id,
                ids |-> [j \in DOMAIN fetched |-> fetched[j].id],
                results |-> [j \in DOMAIN fetched |-> fetched[j].url]]

Min(a, b) == IF a <= b THEN a ELSE b

\* the limit is taken as asked for (what actual_limit is not)
requested_limit(limit, total_vectors) == limit

\* actual_limit = min(limit, total_vectors)
actual_limit(limit, total_vectors) == Min(limit, total_vectors)

\* random.sample(range(n), k): the samples it can return; none when it
\* raises ValueError (k negative or larger than the population)
random_sample(n, k) ==
    IF k < 0 \/ k > n THEN {}
    ELSE {S \in SUBSET (0..(n - 1)) : Cardinality(S) = k}

\* the samples random_images can go on with for a limit: those of
\* random.sample, or the whole shuffled range when it raised
random_indices(total_vectors, limit) ==
    LET k == actual_limit(limit, total_vectors)
    IN IF random_sample(total_vectors, k) = {}
       THEN {0..(total_vectors - 1)}
       ELSE random_sample(total_vectors, k)

\* the first rows of the table, whatever the index holds (what random_images
\* is not)
random_images_any_row(db, vectors, limit, indices) ==
    LET all == OrderById(db.rows)
        k == Max({0, Min(limit, Len(all))})
    IN [ids |-> {all[j].id : j \in 1..k},
        results |-> [j \in 1..k |-> all[j].url],
        caught |-> FALSE]

\* the body of random_images(offset, limit) for one outcome of the sampling;
\* offset is not read
random_images(db, vectors, limit, indices) ==
    LET total_vectors == Len(vectors)
    IN IF total_vectors = 0
       THEN [ids |-> {}, results |-> <<>>, caught |-> FALSE]
       ELSE LET random_db_ids == {idx + 1 : idx \in indices}
                fetched_rows == OrderById({r \in db.rows : r.id \in random_db_ids})
            IN [ids |-> random_db_ids,
                results |-> [j \in DOMAIN fetched_rows |-> fetched_rows[j].url],
                caught |-> random_sample(total_vectors,
                                         actual_limit(limit, total_vectors)) = {}]

\* what a client may ask for
QueryUrls == URLs \cup {"u0"}
Paging == {<<0, PageSize>>, <<PageSize, PageSize>>, <<0, 2 * PageSize>>}

\* the service comes up whatever files are there (what Startup is not)
StartupUnchecked ==
    /\ spc = "down"
    /\ spc' = "ready"
    /\ loaded' = IF artifact.exists THEN artifact.vectors ELSE <<>>
    /\ loadedRows' = artifactRows
    /\ resp' = [op |-> "none"]
    /\ UNCHANGED <<dbfile, hpc, db_lock>>
    /\ UNCHANGED <<crawlVars, ingestVars, buildVars>>

\* server.py is started with both files there: faiss.read_index,
\* sqlite3.connect
Startup ==
    /\ spc = "down"
    /\ artifact.exists
    /\ dbfile
    /\ spc' = "ready"
    /\ loaded' = artifact.vectors
    /\ loadedRows' = artifactRows
    /\ resp' = [op |-> "none"]
    /\ UNCHANGED <<dbfile, hpc, db_lock>>
    /\ UNCHANGED <<crawlVars, ingestVars, buildVars>>

\* server.py is started with index.faiss or collections.db missing: the
\* module raises FileNotFoundError while it is imported, for the index file
\* first, and the process ends without serving
StartupFail ==
    /\ spc = "down"
    /\ ~artifact.exists \/ ~dbfile
    /\ resp' = [op |-> "startup_failed",
                missing |-> IF ~artifact.exists THEN "index.faiss"
                            ELSE "collections.db"]
    /\ UNCHANGED <<spc, loaded, loadedRows, dbfile, hpc, db_lock>>
    /\ UNCHANGED <<crawlVars, ingestVars, buildVars>>

\* the service process is stopped
Shutdown ==
    /\ spc = "ready"
    /\ spc' = "down"
    /\ loaded' = <<>>
    /\ loadedRows' = <<>>
    /\ resp' = [op |-> "none"]
    /\ UNCHANGED <<dbfile, hpc, db_lock>>
    /\ UNCHANGED <<crawlVars, ingestVars, buildVars>>

\* a search that deletes the row it looked up (what Search is not)
SearchEvicts(url, offset, limit) ==
    /\ spc = "ready"
    /\ resp' = [op |-> "search", url |-> url, offset |-> offset,
                limit |-> limit, found |-> FALSE, I |-> <<>>, self_id |-> 0,
                neighbor_ids |-> <<>>, ids |-> <<>>, results |-> <<>>]
    /\ edurable' = [edurable EXCEPT !.rows = {r \in @ : r.url # url}]
    /\ UNCHANGED <<spc, loaded, loadedRows, dbfile, hpc, db_lock>>
    /\ UNCHANGED <<etable, ipc, nbatch, presented, embedRaised, reembedded>>
    /\ UNCHANGED <<crawlVars, buildVars>>

\* GET /api/search
Search(url, offset, limit) ==
    /\ spc = "ready"
    /\ LET out == search(edurable, loaded, url, offset, limit)
       IN resp' = [op |-> "search", url |-> url, offset |-> offset,
                   limit |-> limit, found |-> out.found, I |-> out.I,
                   self_id |-> out.self_id,
                   neighbor_ids |-> out.neighbor_ids,
                   ids |-> out.ids, results |-> out.results]
    /\ UNCHANGED <<spc, loaded, loadedRows, dbfile, hpc, db_lock>>
    /\ UNCHANGED <<crawlVars, ingestVars, buildVars>>

QueryNext ==
    \/ Startup
    \/ Shutdown
    \/ \E u \in QueryUrls : \E p \in Paging : Search(u, p[1], p[2])

\* GET /api/random
Random(offset, limit, indices) ==
    /\ spc = "ready"
    /\ indices \in random_indices(Len(loaded), limit)
    /\ LET out == random_images(edurable, loaded, limit, indices)
       IN resp' = [op |-> "random", offset |-> offset, limit |-> limit,
                   ntotal |-> Len(loaded), ids |-> out.ids,
                   results |-> out.results, caught |-> out.caught]
    /\ UNCHANGED <<spc, loaded, loadedRows, dbfile, hpc, db_lock>>
    /\ UNCHANGED <<crawlVars, ingestVars, buildVars>>

\* ------------------------------ the handlers, thread by thread
\* Positions of a handler thread: "idle"; "search_lock" and "random_lock",
\* at `with db_lock` inside get_db; "search_db" and "random_db", inside the
\* with block, where the statements run on the shared cursor and their
\* results are read; "random_sample", in random_images before get_db.
\* What the statements return is in Search and Random.
InStore(t) == hpc[t] \in {"search_db", "random_db"}

\* a request arrives and a worker thread enters its handler
HandlerCall(t, op) ==
    /\ spc = "ready"
    /\ hpc[t] = "idle"
    /\ hpc' = [hpc EXCEPT ![t] = IF op = "search" THEN "search_lock"
                                 ELSE "random_sample"]
    /\ UNCHANGED <<spc, loaded, loadedRows, resp, dbfile, db_lock>>
    /\ UNCHANGED <<crawlVars, ingestVars, buildVars>>

\* random_images up to get_db: it returns before it when the index is empty
\* or no id was drawn
HandlerSample(t, early) ==
    /\ hpc[t] = "random_sample"
    /\ Len(loaded) = 0 => early
    /\ hpc' = [hpc EXCEPT ![t] = IF early THEN "idle" ELSE "random_lock"]
    /\ UNCHANGED <<spc, loaded, loadedRows, resp, dbfile, db_lock>>
    /\ UNCHANGED <<crawlVars, ingestVars, buildVars>>

\* the with block is entered whoever holds the lock (what LockAcquire is not)
LockAcquireUnchecked(t) ==
    /\ hpc[t] \in {"search_lock", "random_lock"}
    /\ db_lock' = t
    /\ hpc' = [hpc EXCEPT ![t] = IF @ = "search_lock" THEN "search_db"
                                 ELSE "random_db"]
    /\ UNCHANGED <<spc, loaded, loadedRows, resp, dbfile>>
    /\ UNCHANGED <<crawlVars, ingestVars, buildVars>>

\* with db_lock: the thread goes on when the lock is free, and holds it
LockAcquire(t) ==
    /\ hpc[t] \in {"search_lock", "random_lock"}
    /\ db_lock = 0
    /\ db_lock' = t
    /\ hpc' = [hpc EXCEPT ![t] = IF @ = "search_lock" THEN "search_db"
                                 ELSE "random_db"]
    /\ UNCHANGED <<spc, loaded, loadedRows, resp, dbfile>>
    /\ UNCHANGED <<crawlVars, ingestVars, buildVars>>

\* the with block is left, by return or by an exception: the lock is released
HandlerReturn(t) ==
    /\ InStore(t)
    /\ db_lock' = 0
    /\ hpc' = [hpc EXCEPT ![t] = "idle"]
    /\ UNCHANGED <<spc, loaded, loadedRows, resp, dbfile>>
    /\ UNCHANGED <<crawlVars, ingestVars, buildVars>>

ThreadsNext ==
    \/ Startup
    \/ \E t \in Threads : \E op \in {"search", "random"} : HandlerCall(t, op)
    \/ \E t \in Threads : \E early \in BOOLEAN : HandlerSample(t, early)
    \/ \E t \in Threads : LockAcquire(t)
    \/ \E t \in Threads : HandlerReturn(t)

\* the requests of both endpoints
ServiceNext ==
    \/ QueryNext
    \/ \E p \in Paging : \E S \in SUBSET (0..(Len(loaded) - 1)) :
          Random(p[1], p[2], S)

\* nothing crawls while the pipeline behind the Record Store is looked at
CrawlIdle ==
    /\ CrawlInit
    /\ listing = [met |-> {}, louvre |-> {}]

Init == CrawlIdle /\ PipeInit

\* ingestion and index builds, as separate processes over the same files
Next == IngestNext \/ BuildNext

Spec == Init /\ [][Next]_vars

\* the same with a query service that is started, asked and stopped
NextQuery == IngestNext \/ BuildNext \/ QueryNext

SpecQuery == Init /\ [][NextQuery]_vars

\* the same with both endpoints of the query service
NextService == IngestNext \/ BuildNext \/ ServiceNext

SpecService == Init /\ [][NextService]_vars

\* ---------------------------------------- the query service on its own
\* Stores the service can be started on: what the ingestor leaves when it is
\* given distinct URLs in some order
ServeStreams ==
    {its \in UNION {[1..n -> Items] : n \in 0..Cardinality(URLs)} :
        \A i, j \in DOMAIN its : i # j => its[i].url # its[j].url}

ServeStores == {executemany(EmptyDb, its, FALSE).db : its \in ServeStreams}

\* the adding loop of scripts/index.py over scanned rows that are aligned
RECURSIVE BuiltIndex(_)
BuiltIndex(scanned) ==
    IF scanned = <<>> THEN <<>>
    ELSE add(BuiltIndex(SubSeq(scanned, 1, Len(scanned) - 1)),
             frombuffer(scanned[Len(scanned)].embedding))

\* the service starts on a store and on the index.faiss of a build that
\* scanned the store when it held its first j rows
InitServe ==
    /\ CrawlIdle
    /\ \E db \in ServeStores : \E j \in 0..Cardinality(db.rows) :
          LET scanned == SubSeq(OrderById(db.rows), 1, j)
          IN /\ edurable = db
             /\ etable = db
             /\ presented = StoredUrls(db)
             /\ rows = scanned
             /\ faiss_ix = j
             /\ index = BuiltIndex(scanned)
             /\ artifact = [exists |-> TRUE, vectors |-> BuiltIndex(scanned)]
             /\ artifactRows = scanned
    /\ ipc = "idle"
    /\ nbatch = 0
    /\ embedRaised = FALSE
    /\ reembedded = {}
    /\ bpc = "done"
    /\ nbuild = 1
    /\ artifactBefore = [exists |-> FALSE]
    /\ spc = "down"
    /\ loaded = <<>>
    /\ loadedRows = <<>>
    /\ resp = [op |-> "none"]
    /\ dbfile = TRUE
    /\ hpc = [t \in Threads |-> "idle"]
    /\ db_lock = 0

SpecServe == InitServe /\ [][ServiceNext]_vars

\* the random endpoint asked for any integer limit: limit is declared int
\* and not checked, so a client can send zero or a negative number
Limits == (-1)..(2 * PageSize)

LimitsNext ==
    \/ Startup
    \/ \E limit \in Limits : \E S \in SUBSET (0..(Len(loaded) - 1)) :
          Random(0, limit, S)

SpecLimits == InitServe /\ [][LimitsNext]_vars

\* the same service with its handlers as threads
SpecThreads == InitServe /\ [][ThreadsNext]_vars

\* the service is started on whatever is at its two paths: a store or none,
\* the index.faiss of a build or none
InitBoot ==
    /\ CrawlIdle
    /\ \E db \in ServeStores : \E j \in 0..Cardinality(db.rows) :
       \E ix, st \in BOOLEAN :
          LET scanned == SubSeq(OrderById(db.rows), 1, j)
              here == IF st THEN db ELSE EmptyDb
          IN /\ edurable = here
             /\ etable = here
             /\ presented = StoredUrls(db)
             /\ rows = scanned
             /\ faiss_ix = j
             /\ index = BuiltIndex(scanned)
             /\ artifact = IF ix THEN [exists |-> TRUE,
                                       vectors |-> BuiltIndex(scanned)]
                           ELSE [exists |-> FALSE]
             /\ artifactRows = IF ix THEN scanned ELSE <<>>
             /\ dbfile = st
    /\ ipc = "idle"
    /\ nbatch = 0
    /\ embedRaised = FALSE
    /\ reembedded = {}
    /\ bpc = "done"
    /\ nbuild = 1
    /\ artifactBefore = [exists |-> FALSE]
    /\ spc = "down"
    /\ loaded = <<>>
    /\ loadedRows = <<>>
    /\ resp = [op |-> "none"]
    /\ hpc = [t \in Threads |-> "idle"]
    /\ db_lock = 0

BootNext == ServiceNext \/ StartupFail

SpecBoot == InitBoot /\ [][BootNext]_vars

\* --------------------------- the Louvre listing, from the <loc> texts on
\* A <loc> text is a string of pieces, none of which overlaps another:
\* "ark" is '/ark:/53355/', "json" is '.json', "cl" is the text of an object
\* identifier, "sp" is any other text (white space, a further path segment)
Tok == {"ark", "cl", "json", "sp"}
Texts == UNION {[1..n -> Tok] : n \in 0..MaxText}

\* a <loc> element: its text, or none (url.text is None for an empty element)
Locs == {[none |-> FALSE, text |-> t] : t \in Texts}
           \cup {[none |-> TRUE, text |-> <<>>]}
Sitemaps == UNION {[1..n -> Locs] : n \in 1..MaxLocs}

\* tok in text
contains(text, tok) == \E i \in DOMAIN text : text[i] = tok

\* text.split(tok)[-1]
split_last(text, tok) ==
    IF ~contains(text, tok) THEN text
    ELSE SubSeq(text, Max({i \in DOMAIN text : text[i] = tok}) + 1, Len(text))

\* text.replace(tok, ''): every occurrence goes
replace(text, tok) == SelectSeq(text, LAMBDA x : x # tok)

\* url.text.split('/ark:/53355/')[-1].replace('.json', '')
louvre_ref(text) == replace(split_last(text, "ark"), "json")

\* the loop over the <loc> elements: refs, in document order
RECURSIVE louvre_refs(_)
louvre_refs(locs) ==
    IF locs = <<>> THEN <<>>
    ELSE LET url == Head(locs)
             rest == louvre_refs(Tail(locs))
         IN IF contains(url.text, "ark") /\ louvre_ref(url.text) # <<>>
            THEN <<louvre_ref(url.text)>> \o rest
            ELSE rest

\* crawl_louvre up to the spawning of process_artwork: the child sitemaps
\* arrived; a <loc> without text raises TypeError inside the try and the
\* coroutine returns, otherwise the refs are extracted and diffed
LouvreListing ==
    /\ cpc = "running"
    /\ tpc["louvre"] = "list"
    /\ IF \E i \in DOMAIN sitemap : sitemap[i].none
       THEN /\ tpc' = [tpc EXCEPT !["louvre"] = "failed"]
            /\ clean' = clean \ {"louvre"}
            /\ UNCHANGED <<missing, item>>
       ELSE LET refs == louvre_refs(sitemap)
                api_refs == {refs[i] : i \in DOMAIN refs}
                miss == api_refs \ get_existing_refs(table, "louvre")
            IN /\ missing' = [missing EXCEPT !["louvre"] = miss]
               /\ item' = [item EXCEPT !["louvre"] = [r \in miss |-> "wait"]]
               /\ tpc' = [tpc EXCEPT !["louvre"] =
                                    IF miss = {} THEN "done" ELSE "fetch"]
               /\ UNCHANGED clean
    /\ UNCHANGED <<listing, durable, table, cpc, run, preRun, inserted,
                   prevDone, prevClean, cutShort, lastSave>>
    /\ UNCHANGED <<sitemap, pipeVars>>

\* a run over some child sitemaps of the Louvre; the Met publishes nothing
InitExtract ==
    /\ sitemap \in Sitemaps
    /\ listing = [met |-> {}, louvre |-> {}]
    /\ durable = EmptyBag
    /\ table = EmptyBag
    /\ cpc = "idle"
    /\ run = 0
    /\ tpc = [m \in Museums |-> "done"]
    /\ missing = [m \in Museums |-> {}]
    /\ item = [m \in Museums |-> NoItems]
    /\ preRun = EmptyBag
    /\ inserted = {}
    /\ clean = Museums
    /\ prevDone = FALSE
    /\ prevClean = {}
    /\ cutShort = {}
    /\ lastSave = NoSave
    /\ PipeInit

ExtractNext ==
    \/ StartRun
    \/ ListingOk("met")
    \/ LouvreListing
    \/ \E r \in missing["louvre"] : Acquire("louvre", r)
    \/ \E r \in missing["louvre"] : SendGet("louvre", r)
    \/ \E r \in missing["louvre"] : FetchOk("louvre", r, CHOOSE d \in Docs : TRUE)
    \/ \E r \in missing["louvre"] : FetchFail("louvre", r)
    \/ Commit("louvre")
    \/ Finish

SpecExtract == InitExtract /\ [][ExtractNext]_vars

\* the crawl alone
InitCrawl == CrawlInit /\ PipeInit

SpecCrawl == InitCrawl /\ [][CrawlNext]_vars

\* the crawl left to run: nothing kills the process, every request that was
\* sent comes back (with an answer or an error), every sleep ends, a free
\* slot goes to a waiting coroutine, and the event loop resumes a coroutine
\* that can go on
LiveNext ==
    \/ StartRun
    \/ \E m \in Museums : ListingFail(m)
    \/ \E m \in Museums : ListingOk(m)
    \/ \E m \in Museums : \E r \in AllRefs : Acquire(m, r)
    \/ \E m \in Museums : \E r \in AllRefs : SendGet(m, r)
    \/ \E m \in Museums : \E r \in AllRefs : \E d \in Docs : FetchOk(m, r, d)
    \/ \E m \in Museums : \E r \in AllRefs : FetchFail(m, r)
    \/ \E m \in Museums : Commit(m)
    \/ Finish

CrawlFairness ==
    /\ \A m \in Museums : WF_vars(ListingOk(m) \/ ListingFail(m))
    /\ \A m \in Museums : WF_vars(\E r \in AllRefs : Acquire(m, r))
    /\ \A m \in Museums : \A r \in AllRefs : WF_vars(SendGet(m, r))
    /\ \A m \in Museums : \A r \in AllRefs :
          WF_vars((\E d \in Docs : FetchOk(m, r, d)) \/ FetchFail(m, r))
    /\ \A m \in Museums : WF_vars(Commit(m))
    /\ WF_vars(Finish)

SpecCrawlLive == InitCrawl /\ [][LiveNext]_vars /\ CrawlFairness

\* save_artwork alone
InitSave == SaveInit /\ PipeInit

SpecSave == InitSave /\ [][SaveNext]_vars

\* ---------------------------------------------------------------- claims

\* C4: the Record Store never holds two rows with the same (source,
\* source_ref), and a save_artwork call whose key is already present adds no
\* row, leaves the table as it was and raises no error.
C4_UniqueIdempotentInsert ==
    /\ \A m \in Museums : \A r \in SaveRefs :
          KeyCount(table, m, r) <= 1 /\ KeyCount(durable, m, r) <= 1
    /\ (lastSave.called /\ lastSave.existed) =>
          lastSave.after = lastSave.before /\ ~lastSave.error

\* C4 witness: a save hit an existing key with a different document
C4_Witness ==
    /\ lastSave.called
    /\ lastSave.existed
    /\ \E r \in RowsFor(lastSave.before, lastSave.museum, lastSave.ref) :
          r.data # lastSave.data

\* elements of a sequence
Range(f) == {f[j] : j \in DOMAIN f}

\* C1: once a build has written its artifact, the artifact holds one vector
\* per scanned row, and position i (0-based) holds the vector of the scanned
\* row whose ordinal_id is i+1.
C1_AlignmentAfterBuild ==
    artifact.exists =>
        /\ Len(artifact.vectors) = Len(artifactRows)
        /\ \A i \in 0..(Len(artifact.vectors) - 1) :
              \E r \in Range(artifactRows) :
                  /\ r.id = i + 1
                  /\ artifact.vectors[i + 1] = frombuffer(r.embedding)

\* C1 witness: an artifact over at least two rows with different vectors
C1_Witness ==
    /\ artifact.exists
    /\ Len(artifact.vectors) >= 2
    /\ artifact.vectors[1] # artifact.vectors[2]

\* positions (1-based) of the scan at which position and ordinal disagree
Misaligned == {j \in 1..Len(rows) : rows[j].id # j}

\* C2: a build whose scan holds a row whose ordinal_id - 1 is not its
\* position never adds that row or any row after it, never reaches the
\* write, and leaves the artifact on disk as it was when the build started.
C2_MismatchAbortsBeforeWrite ==
    (bpc # "idle" /\ Misaligned # {}) =>
        /\ \A j \in Misaligned : faiss_ix < j
        /\ bpc # "done"
        /\ artifact = artifactBefore

\* C2 witness: a build aborted at its second row, after adding the first
C2_Witness ==
    /\ bpc = "aborted"
    /\ faiss_ix = 1
    /\ Len(index) = 1
    /\ ~artifact.exists

\* C3 as stated, for ingest runs in which the embedding function never
\* raised: after a run every URL that was presented has exactly one row.
C3_ExactlyOneRowPerPresentedUrl ==
    (ipc = "idle" /\ ~embedRaised) =>
        \A u \in presented : UrlCount(edurable, u) = 1

\* rank (position in neighbor_ids) of a returned ordinal_id
RankOf(r, id) == CHOOSE j \in DOMAIN r.neighbor_ids : r.neighbor_ids[j] = id

\* C6 as stated: the rows of a search answer are in the rank order of the
\* neighbours: of two returned rows the one with the smaller rank is first.
C6_ResultsInRankOrder ==
    resp.op = "search" =>
        \A a, b \in DOMAIN resp.ids :
            a < b => RankOf(resp, resp.ids[a]) < RankOf(resp, resp.ids[b])

\* C7 as stated (page length PageSize): against the store and the index of
\* a running service, for every indexed URL the first and the second page
\* share no row and, one after the other, are the answer to the request for
\* both pages at once.
C7_PaginationConsistent ==
    spc = "ready" =>
        \A u \in {r.url : r \in Range(loadedRows)} :
            LET first == search(edurable, loaded, u, 0, PageSize).results
                second == search(edurable, loaded, u, PageSize, PageSize).results
                both == search(edurable, loaded, u, 0, 2 * PageSize).results
            IN /\ Range(first) \cap Range(second) = {}
               /\ first \o second = both

\* C8 as stated, for a URL whose own vector the index ranks first: a search
\* from offset 0 for a URL that has a row returns that row first.
C8_OwnRowFirst ==
    (/\ resp.op = "search"
     /\ resp.found
     /\ resp.offset = 0
     /\ resp.I[1] + 1 = resp.self_id) =>
        /\ resp.results # <<>>
        /\ resp.results[1] = resp.url

\* C9 as stated, for an index that holds at least one vector: every
\* ordinal_id that search derives from a neighbour is the ordinal_id of a row
\* scanned by the build of the loaded index.
C9_NeighboursAreStoredRows ==
    (resp.op = "search" /\ loaded # <<>>) =>
        \A j \in DOMAIN resp.neighbor_ids :
            \E r \in Range(loadedRows) : r.id = resp.neighbor_ids[j]

C10_KilledSourceKeepsPreRunRows ==
    cpc = "killed" =>
        \A m \in cutShort : MuseumRows(durable, m) = MuseumRows(preRun, m)

\* per-item requests that are sent and not yet answered, both sources together
InFlight ==
    {<<m, r>> \in Museums \X AllRefs : r \in missing[m] /\ item[m][r] = "get"}

\* C11 as stated (the cap of 50 scaled to SemCap): at every moment of a run
\* at most SemCap per-item fetches are in flight, both sources together.
C11_GlobalCap == Cardinality(InFlight) <= SemCap

\* the steps the coroutine of one source can take
SourceStep(m) ==
    \/ ListingFail(m)
    \/ ListingOk(m)
    \/ \E r \in AllRefs : Acquire(m, r) \/ SendGet(m, r) \/ FetchFail(m, r)
    \/ \E r \in AllRefs : \E d \in Docs : FetchOk(m, r, d)
    \/ Commit(m)

\* C12: a run returns only after both coroutines returned; while it runs, a
\* coroutine that has not returned always has a step it can take, whatever
\* happened to the other source; and when the run has returned, every source
\* that got a missing set has processed all of it and its saved rows are
\* on disk, also when the other source failed.
C12_SourceIndependence ==
    /\ (cpc = "idle" /\ run >= 1) =>
          \A m \in Museums : tpc[m] \in {"done", "failed"}
    /\ \A m \in Museums :
          (cpc = "running" /\ tpc[m] \in {"list", "fetch"}) =>
              ENABLED SourceStep(m)
    /\ (cpc = "idle" /\ run >= 1) =>
          \A m \in Museums :
              /\ Unprocessed(m) = {}
              /\ \A r \in missing[m] :
                    item[m][r] = "done" => RowsFor(durable, m, r) # {}

\* C12 witness: a run returned in which the Met listing failed and the Louvre
\* coroutine saved and committed both of its missing refs
C12_Witness ==
    /\ cpc = "idle"
    /\ tpc["met"] = "failed"
    /\ missing["louvre"] = LouvreRefs
    /\ \A r \in LouvreRefs :
          <<"louvre", r>> \in inserted /\ RowsFor(durable, "louvre", r) # {}

\* C13: a source whose listing failed has no missing set and no
\* process_artwork coroutine in this run, saved nothing, and its rows, in the
\* connection's view and on disk, are those from before the run.
C13_ListingFailureLeavesSourceUntouched ==
    \A m \in Museums :
        tpc[m] = "failed" =>
            /\ missing[m] = {}
            /\ item[m] = NoItems
            /\ \A r \in AllRefs : <<m, r>> \notin inserted
            /\ MuseumRows(table, m) = MuseumRows(preRun, m)
            /\ MuseumRows(durable, m) = MuseumRows(preRun, m)

\* C13 witness: a second run returned whose Louvre listing failed while one
\* of the two published refs was still missing from the store, and in which
\* the Met coroutine saved a row
C13_Witness ==
    /\ cpc = "idle"
    /\ run = 2
    /\ tpc["louvre"] = "failed"
    /\ listing["louvre"] = LouvreRefs
    /\ get_existing_refs(preRun, "louvre") = {"cl1"}
    /\ \E r \in AllRefs : <<"met", r>> \in inserted

\* missing refs of a source whose fetch failed in this run
Failed(m) == {r \in missing[m] : item[m][r] = "failed"}

\* C14: a failed per-item fetch leaves no row for its ref; the coroutine of
\* its source goes on (until its commit it always has a step to take); and
\* when the run has returned the source has processed every other missing ref
\* and committed the rows of those that succeeded.
C14_ItemFailureIsolated ==
    \A m \in Museums :
        Failed(m) # {} =>
            /\ \A r \in Failed(m) :
                  /\ RowsFor(table, m, r) = {}
                  /\ RowsFor(durable, m, r) = {}
                  /\ <<m, r>> \notin inserted
            /\ cpc = "running" =>
                  \/ tpc[m] = "done"
                  \/ tpc[m] = "fetch" /\ ENABLED SourceStep(m)
            /\ cpc = "idle" =>
                  /\ tpc[m] = "done"
                  /\ Unprocessed(m) = {}
                  /\ \A r \in missing[m] \ Failed(m) :
                        RowsFor(durable, m, r) # {}

\* C14 witness: a run returned in which the fetch of one Louvre ref failed and
\* the other Louvre ref was saved and committed
C14_Witness ==
    /\ cpc = "idle"
    /\ missing["louvre"] = LouvreRefs
    /\ Failed("louvre") = {"cl1"}
    /\ item["louvre"]["cl2"] = "done"
    /\ RowsFor(durable, "louvre", "cl2") # {}

\* C15: the embedding function and the insert only ever get items whose URL
\* was not in the Embedding Store when their batch was checked; and a batch
\* all of whose URLs are stored (every batch of a stream that was ingested
\* successfully before) yields no new item, so that neither the embedding
\* function nor the insert can run for it.
C15_SkipExisting ==
    /\ reembedded = {}
    /\ \A b \in Batches :
          (\A i \in DOMAIN b : b[i].url \in StoredUrls(etable)) =>
              /\ new_items(etable, b) = <<>>
              /\ ~ENABLED IngestEmbedFail(b)
              /\ \A skip \in BOOLEAN : ~ENABLED IngestInsert(b, skip)

\* C15 witness: two batches were presented, both with the URL u1 only, the
\* first was embedded and committed (one row, ordinal 1) and nothing of the
\* second went on (no raise, nothing pending, no ordinal used)
C15_Witness ==
    /\ ipc = "running"
    /\ nbatch = 2
    /\ presented = {"u1"}
    /\ ~embedRaised
    /\ etable = edurable
    /\ UrlCount(edurable, "u1") = 1
    /\ edurable.seq = 1

\* C16: an iteration of the batch loop, raising or not, leaves the ingestor
\* running; a step never removes or changes a committed row; and an ingestor
\* in which a batch raised takes whatever batch comes next.
C16_BatchFailureIsolated ==
    /\ [][/\ edurable.rows \subseteq edurable'.rows
          /\ nbatch' > nbatch => ipc' = "running"]_vars
    /\ []((/\ ipc = "running"
           /\ nbatch < MaxBatches
           /\ embedRaised \/ etable # edurable) =>
              \A b \in Batches :
                  \/ ENABLED IngestSkip(b)
                  \/ ENABLED IngestEmbedFail(b)
                  \/ ENABLED IngestInsert(b, FALSE))

\* C16 witness: rows of an earlier batch are committed and the insert of a
\* later batch raised (its first row is pending), the ingestor still running
C16_Witness ==
    /\ ipc = "running"
    /\ edurable.rows # {}
    /\ edurable.rows # etable.rows
    /\ edurable.rows \subseteq etable.rows

\* C17: whatever was ingested since the build, every position i (0-based) of
\* the written index has a row in the Embedding Store with ordinal_id i+1
\* that is the row scanned by the build (same URL, same vector), and the
\* index holds that vector at position i.
C17_BuiltIndexStaysConsistent ==
    artifact.exists =>
        \A i \in 0..(Len(artifact.vectors) - 1) :
            /\ artifactRows[i + 1] \in edurable.rows
            /\ artifactRows[i + 1].id = i + 1
            /\ frombuffer(artifactRows[i + 1].embedding) = artifact.vectors[i + 1]

\* C17 witness: an index over at least one row, and rows committed after the
\* scan of its build
C17_Witness ==
    /\ artifact.exists
    /\ Len(artifact.vectors) >= 1
    /\ Cardinality(edurable.rows) > Len(artifact.vectors)

\* C18: a search for a URL without a row answers with an empty list and has
\* asked the index nothing; this holds for the answers given and for every
\* request a running service could be sent.
C18_UnknownUrlEmptyAnswer ==
    /\ (resp.op = "search" /\ ~resp.found) =>
          resp.results = <<>> /\ resp.I = <<>> /\ resp.neighbor_ids = <<>>
    /\ spc = "ready" =>
          \A u \in QueryUrls \ StoredUrls(edurable) : \A p \in Paging :
              LET out == search(edurable, loaded, u, p[1], p[2])
              IN ~out.found /\ out.results = <<>> /\ out.I = <<>>

\* C18 witness: a search for the unknown URL u0 was answered by a service
\* whose index holds vectors
C18_Witness ==
    /\ resp.op = "search"
    /\ resp.url = "u0"
    /\ ~resp.found
    /\ loaded # <<>>

\* C19: an answer of random for a limit N > 0 given by a service whose index
\* holds P vectors has at most min(N, P) rows, and random.sample did not
\* raise on the way.
C19_RandomSamplingBound ==
    resp.op = "random" =>
        /\ Len(resp.results) <= Min(resp.limit, resp.ntotal)
        /\ Cardinality(resp.ids) <= Min(resp.limit, resp.ntotal)
        /\ ~resp.caught

\* C19 witness: random was asked for more rows than the index holds vectors
\* and answered with a row for every vector
C19_Witness ==
    /\ resp.op = "random"
    /\ resp.ntotal >= 1
    /\ resp.limit > resp.ntotal
    /\ Len(resp.results) = resp.ntotal

\* C19 witness of the empty index: random answered with no row
C19_WitnessEmpty ==
    /\ resp.op = "random"
    /\ resp.ntotal = 0
    /\ resp.results = <<>>

\* C20: a step in which a running service answers a request (search or
\* random, in any order and number) changes neither the Embedding Store, as
\* committed or as seen by the ingestor, nor the loaded index, nor the index
\* file.
C20_QueriesReadOnly ==
    [][(spc = "ready" /\ spc' = "ready" /\ resp' # resp) =>
          /\ edurable' = edurable
          /\ etable' = etable
          /\ loaded' = loaded
          /\ artifact' = artifact]_vars

\* C20 witness: a search found its URL and was answered with two rows
C20_Witness ==
    /\ resp.op = "search"
    /\ resp.found
    /\ Len(resp.results) >= 2

\* C21: the query service is ready only with index.faiss loaded and
\* collections.db open; when either file is missing at start the start fails
\* and no handler ever answers
C21_StartupNeedsBothFiles ==
    /\ spc = "ready" => artifact.exists /\ dbfile /\ loaded = artifact.vectors
    /\ (~artifact.exists \/ ~dbfile) =>
          spc = "down" /\ resp.op \in {"none", "startup_failed"}

C21_Witness ==
    /\ resp.op = "startup_failed"
    /\ resp.missing = "collections.db"
    /\ artifact.exists
    /\ Len(artifact.vectors) > 0
    /\ spc = "down"

\* a per-item request has been sent for the reference in the current run
Fetched(m, r) == r \in missing[m] /\ item[m][r] \in {"get", "done", "failed"}

\* C22: every reference a run fetches is in the source's listing and was not
\* persisted for that source when the run started; within a run the request
\* for a reference is sent once, from the coroutine that took a slot for it,
\* and a reference that was fetched is never fetched again
C22_OnlyMissingRefsFetchedOnce ==
    /\ [](\A m \in Museums : \A r \in missing[m] :
            /\ r \in api_refs_set(m, listing[m])
            /\ r \notin get_existing_refs(preRun, m))
    /\ [][\A m \in Museums : \A r \in missing[m] :
            run' = run =>
               /\ r \in missing'[m]
               /\ Fetched(m, r) =>
                     item'[m][r] \in {"get", "done", "failed"}
                     /\ (item[m][r] # "get" => item'[m][r] = item[m][r])
               /\ (item'[m][r] = "get" /\ item[m][r] # "get") =>
                     item[m][r] = "sleep"]_vars

C22_Witness ==
    /\ run = 2
    /\ \E m \in Museums :
          /\ get_existing_refs(preRun, m) # {}
          /\ \E r \in missing[m] : item[m][r] = "done"

\* C23: when a run has returned, the references persisted for a source are
\* those persisted before the run together with exactly the missing
\* references whose fetch succeeded; every reference added is in the
\* source's listing; every row that was there before the run is still there,
\* unchanged and once
C23_RunPostState ==
    (cpc = "idle" /\ run >= 1) =>
        /\ \A m \in Museums :
              /\ get_existing_refs(durable, m) =
                    get_existing_refs(preRun, m)
                       \cup {r \in missing[m] : item[m][r] = "done"}
              /\ (get_existing_refs(durable, m) \ get_existing_refs(preRun, m))
                    \subseteq api_refs_set(m, listing[m])
        /\ \A row \in BagToSet(preRun) :
              CopiesIn(row, durable) = CopiesIn(row, preRun)
        /\ table = durable

C23_Witness ==
    /\ cpc = "idle"
    /\ run = 2
    /\ preRun # EmptyBag
    /\ \E m \in Museums : \E r \in missing[m] : item[m][r] = "done"
    /\ \E m \in Museums : \E r \in missing[m] : item[m][r] = "failed"

\* text with tok taken off its end once, if it ends with it
strip_suffix(text, tok) ==
    IF text # <<>> /\ text[Len(text)] = tok
    THEN SubSeq(text, 1, Len(text) - 1) ELSE text

\* C24: every Louvre reference that reaches the fetch step is what follows
\* the pattern in some <loc> text, with the suffix taken off, is not empty
\* and is a bare identifier
C24_OnlyWellFormedRefsFetched ==
    \A r \in missing["louvre"] : Fetched("louvre", r) =>
        /\ r # <<>>
        /\ \E i \in DOMAIN sitemap :
              /\ contains(sitemap[i].text, "ark")
              /\ r = strip_suffix(split_last(sitemap[i].text, "ark"), "json")
        /\ \A k \in DOMAIN r : r[k] = "cl"

\* C25: at most one handler thread at a time is inside the block in which
\* statements run on the shared cursor and their results are read, and that
\* thread holds db_lock
C25_StoreAccessExclusive ==
    /\ \A t1, t2 \in Threads : (InStore(t1) /\ InStore(t2)) => t1 = t2
    /\ \A t \in Threads : InStore(t) => db_lock = t

C25_Witness ==
    \E t1, t2 \in Threads :
        /\ hpc[t1] = "search_db"
        /\ hpc[t2] = "random_lock"
        /\ Len(loaded) > 0

\* C26: an answer of the random endpoint holds no row twice, and every row
\* in it has an ordinal id between 1 and the number of vectors of the loaded
\* index, also when the store has rows that were added after the build
C26_RandomWithoutReplacement ==
    resp.op = "random" =>
        /\ \A i, j \in DOMAIN resp.results :
              i # j => resp.results[i] # resp.results[j]
        /\ resp.ids \subseteq 1..resp.ntotal
        /\ \A j \in DOMAIN resp.results :
              \E r \in edurable.rows :
                 r.url = resp.results[j] /\ r.id \in resp.ids
        /\ Len(resp.results) <= Cardinality(resp.ids)

C26_Witness ==
    /\ resp.op = "random"
    /\ Len(resp.results) >= 2
    /\ Cardinality(edurable.rows) > resp.ntotal

\* the ordinal ids of the scanned rows are exactly 1..n
GapFree(scanned) == \A j \in DOMAIN scanned : scanned[j].id = j

C28_RaisedBatchContributesNoRow ==
    [][edurable' # edurable =>
          (etable.rows \ edurable.rows) \cap edurable'.rows = {}]_vars

\* C29: an answer of the random endpoint has at most max(0, limit) rows,
\* for every integer limit
C29_RandomAtMostLimit ==
    resp.op = "random" => Len(resp.results) <= Max({0, resp.limit})

\* C30: a run that was started returns; every missing reference that waits
\* for a slot gets one and its coroutine ends; a coroutine that ended holds
\* no slot, and a source whose coroutine returned holds none
C30_RunTerminates ==
    /\ (cpc = "running") ~> (cpc = "idle")
    /\ \A m \in Museums : \A r \in AllRefs :
          (cpc = "running" /\ r \in missing[m] /\ item[m][r] = "wait")
             ~> (r \in missing[m] /\ item[m][r] \in {"done", "failed"})
    /\ [](\A m \in Museums :
            /\ Cardinality(Holding(m)) <= SemCap
            /\ tpc[m] \in {"done", "failed"} => Holding(m) = {})

C30_Witness ==
    /\ cpc = "idle"
    /\ run >= 1
    /\ \E m \in Museums :
          /\ Cardinality(missing[m]) > SemCap
          /\ \E r \in missing[m] : item[m][r] = "failed"
          /\ \E r \in missing[m] : item[m][r] = "done"

====
